---- MODULE Spec2Model ----
(***************************************************************************)
(* Model of src/modjo/modjo-transcripts-to-dust.ts: the paginated          *)
(* extraction of Modjo call exports (getModjoTranscripts), the rendering   *)
(* and rate-limited upsert of each record (upsertToDustDatasource with     *)
(* the Bottleneck limiter), formatTime, and main.                          *)
(*                                                                         *)
(* Strings the code assembles are sequences of string atoms: a number is   *)
(* printed digit by digit, a literal or an opaque field value is one atom. *)
(* A document text is a sequence of lines, each line a sequence of atoms.  *)
(***************************************************************************)
EXTENDS Integers, Sequences, FiniteSets, TLC

VARIABLES
    pc,             \* position of main: "main", "awaitPage", "extracted", "loop", "awaitUpsert", "done"
    extractorCalls, \* number of invocations of getModjoTranscripts
    page,           \* getModjoTranscripts: let page
    allTranscripts, \* getModjoTranscripts: let allTranscripts
    requests,       \* page requests sent to the source, in order
    responses,      \* what the source answered to each request, in order
    transcripts,    \* main: const transcripts
    idx,            \* main: number of records the for-of loop has taken
    queued,         \* limiter: jobs scheduled and not yet launched
    executing,      \* limiter: jobs launched whose request is in flight
    sinceLaunch,    \* limiter: time since the last launch, saturating at minTime
    dispatches,     \* upsert requests sent to the destination, in order
    completions,    \* outcome of each upsert request, in order
    docs,           \* the destination's documents
    console,        \* lines written by console.log / console.error
    fmtIn,          \* argument of the last formatTime call observed on its own
    fmtOut,         \* its result
    config,         \* the configuration read from the environment (lines 7-11)
    docs0           \* the destination's documents when the run began

vars == <<pc, extractorCalls, page, allTranscripts, requests, responses,
          transcripts, idx, queued, executing, sinceLaunch, dispatches,
          completions, docs, console, fmtIn, fmtOut, config, docs0>>

extractorVars == <<page, allTranscripts, requests, responses>>
limiterVars == <<queued, executing, sinceLaunch>>
destinationVars == <<dispatches, completions, docs>>
fmtVars == <<fmtIn, fmtOut>>
envVars == <<config, docs0>>

(***************************************************************************)
(* Bounds of the model.                                                    *)
(***************************************************************************)
MaxCallId == 2      \* call ids the source hands out: 1..MaxCallId
MaxSlice == 2       \* longest 'values' slice of one page
MaxLastPage == 2    \* largest lastPage the source reports
MaxRecords == 2     \* most records the source returns over all pages
TickStep == 250     \* granularity of the clock
MaxSeconds == 6100  \* largest argument formatTime is applied to
MaxSpeakerId == 2   \* speaker ids: 1..MaxSpeakerId
MaxSpeakers == 2    \* longest speakers list
MaxEntries == 2     \* longest transcript
MaxTopics == 2      \* most topics of one transcript entry

(***************************************************************************)
(* Program constants.                                                      *)
(***************************************************************************)
perPage == 50
minTime == 500
maxConcurrent == 1

NULL == "<null>"

\* lines 7-11: the values process.env holds after dotenv.config()
ConfigKeys ==
    {"MODJO_BASE_URL", "MODJO_API_KEY", "DUST_API_KEY", "DUST_WORKSPACE_ID",
     "DUST_DATASOURCE_ID"}

RequiredKeys ==
    {"MODJO_API_KEY", "DUST_API_KEY", "DUST_WORKSPACE_ID", "DUST_DATASOURCE_ID"}

\* an environment with every required value set and no base-URL override
DefaultConfig ==
    [k \in ConfigKeys |-> IF k = "MODJO_BASE_URL" THEN NULL ELSE "set"]

Min(S) == CHOOSE x \in S : \A y \in S : x <= y

SeqsUpTo(S, n) == UNION {[1..k -> S] : k \in 0..n}

(***************************************************************************)
(* Number and string primitives used by the code.                          *)
(***************************************************************************)
DigitChars == <<"0", "1", "2", "3", "4", "5", "6", "7", "8", "9">>

\* Number.prototype.toString / template interpolation of a non-negative integer
RECURSIVE NumToString(_)
NumToString(n) ==
    IF n < 10 THEN <<DigitChars[n + 1]>>
    ELSE NumToString(n \div 10) \o <<DigitChars[(n % 10) + 1]>>

\* String.prototype.padStart with a one-character fill
padStart(s, targetLength, fill) ==
    IF Len(s) >= targetLength THEN s
    ELSE [i \in 1..(targetLength - Len(s)) |-> fill] \o s

\* JavaScript truthiness of a string-or-null value
Truthy(v) == v # NULL /\ v # ""

(***************************************************************************)
(* formatTime (lines 198-204).                                             *)
(***************************************************************************)
\* a slip that leaves the seconds field unpadded
formatTimeUnpaddedSeconds(seconds) ==
    LET minutes == seconds \div 60
        remainingSeconds == seconds % 60
    IN  padStart(NumToString(minutes), 2, "0") \o <<":">>
            \o NumToString(remainingSeconds)

formatTime(seconds) ==
    LET minutes == seconds \div 60
        remainingSeconds == seconds % 60
    IN  padStart(NumToString(minutes), 2, "0") \o <<":">>
            \o padStart(NumToString(remainingSeconds), 2, "0")

(***************************************************************************)
(* The document of one record (upsertToDustDatasource, lines 135-171).     *)
(* A ModjoCallExport is a record                                           *)
(*   [callId, title, startDate, duration, provider, language, callCrmId,   *)
(*    recording, aiSummary, speakers, transcript]                          *)
(* with recording a sequence of length 0 (relation absent) or 1.           *)
(***************************************************************************)
\* a slip that derives the identifier from the title instead of the call id
documentIdFromTitle(transcript) == <<"modjo-transcript-", transcript.title>>

\* a slip that leaves the call id out of the identifier
documentIdShared(transcript) == <<"modjo-transcript-">>

\* line 136
documentId(transcript) == <<"modjo-transcript-">> \o NumToString(transcript.callId)

headerLines(transcript) ==
    <<  <<"Call ID: ">> \o NumToString(transcript.callId),
        <<"Title: ", transcript.title>>,
        <<"Date: ", transcript.startDate>>,
        <<"Duration: ">> \o NumToString(transcript.duration) \o <<" seconds">>,
        <<"Provider: ", transcript.provider>>,
        <<"Language: ", transcript.language>>  >>
    \o (IF Truthy(transcript.callCrmId)
        THEN << <<"CRM ID: ", transcript.callCrmId>> >> ELSE <<>>)
    \o (IF transcript.recording # <<>>
        THEN << <<"Recording URL: ", transcript.recording[1].url>> >> ELSE <<>>)
    \o (IF Truthy(transcript.aiSummary)
        THEN << <<"AI Summary: ", transcript.aiSummary>> >> ELSE <<>>)

speakerLine(speaker) ==
    NumToString(speaker.speakerId) \o <<": ", speaker.name, " (", speaker.type, ")">>
    \o (IF Truthy(speaker.email) THEN <<" - Email: ", speaker.email>> ELSE <<>>)
    \o (IF Truthy(speaker.phoneNumber)
        THEN <<" - Phone: ", speaker.phoneNumber>> ELSE <<>>)

speakerLines(transcript) ==
    << <<>>, <<"Speakers:">> >>
    \o [i \in 1..Len(transcript.speakers) |-> speakerLine(transcript.speakers[i])]

\* Array.prototype.find: the first element with the id, as a sequence of length 0 or 1
findSpeaker(speakers, speakerId) ==
    LET hits == {i \in 1..Len(speakers) : speakers[i].speakerId = speakerId}
    IN  IF hits = {} THEN <<>> ELSE <<speakers[Min(hits)]>>

\* a slip that lets a later speaker with the same id win
speakerNameLastMatch(transcript, entry) ==
    LET hits == {i \in 1..Len(transcript.speakers) :
                    transcript.speakers[i].speakerId = entry.speakerId}
    IN  IF hits = {} THEN <<"Speaker ">> \o NumToString(entry.speakerId)
        ELSE <<transcript.speakers[CHOOSE i \in hits : \A j \in hits : j <= i].name>>

speakerName(transcript, entry) ==
    LET speaker == findSpeaker(transcript.speakers, entry.speakerId)
    IN  IF speaker # <<>> THEN <<speaker[1].name>>
        ELSE <<"Speaker ">> \o NumToString(entry.speakerId)

\* Array.prototype.join of the topic names
RECURSIVE joinNames(_, _)
joinNames(topics, sep) ==
    IF topics = <<>> THEN <<>>
    ELSE IF Len(topics) = 1 THEN <<topics[1].name>>
    ELSE <<topics[1].name, sep>> \o joinNames(Tail(topics), sep)

entryLines(transcript, entry) ==
    << <<"[">> \o formatTime(entry.startTime) \o <<" - ">>
          \o formatTime(entry.endTime) \o <<"] ">>
          \o speakerName(transcript, entry) \o <<": ", entry.content>> >>
    \o (IF Len(entry.topics) > 0
        THEN << <<"Topics: ">> \o joinNames(entry.topics, ", ") >> ELSE <<>>)
    \o << <<>> >>

RECURSIVE transcriptLinesFrom(_, _)
transcriptLinesFrom(transcript, i) ==
    IF i > Len(transcript.transcript) THEN <<>>
    ELSE entryLines(transcript, transcript.transcript[i])
            \o transcriptLinesFrom(transcript, i + 1)

transcriptLines(transcript) ==
    << <<>>, <<"Transcript:">> >> \o transcriptLinesFrom(transcript, 1)

\* String.prototype.trim on the assembled text: blank lines at either end go
trim(lines) ==
    LET keep == {i \in 1..Len(lines) : lines[i] # <<>>}
    IN  IF keep = {} THEN <<>>
        ELSE LET lo == Min(keep)
                 hi == CHOOSE i \in keep : \A j \in keep : j <= i
             IN  [k \in 1..(hi - lo + 1) |-> lines[lo + k - 1]]

\* the request body's text: content.trim()
documentText(transcript) ==
    trim(headerLines(transcript) \o speakerLines(transcript)
            \o transcriptLines(transcript))

(***************************************************************************)
(* Inputs: the records the source can return.                              *)
(***************************************************************************)
Titles == {"Discovery call", "Follow-up"}
Names == {"Alice", "Bob"}

Speaker(id, name) ==
    [speakerId |-> id, name |-> name, type |-> "user",
     email |-> NULL, phoneNumber |-> NULL]

Entry(speakerId) ==
    [startTime |-> 59, endTime |-> 125, speakerId |-> speakerId,
     content |-> "Hello", topics |-> <<>>]

Record(callId, title, speakers, entries) ==
    [callId |-> callId, title |-> title, startDate |-> "2024-03-01T10:00:00Z",
     duration |-> 3661, provider |-> "aircall", language |-> "en",
     callCrmId |-> NULL, recording |-> <<[url |-> "https://rec/1"]>>,
     aiSummary |-> NULL, speakers |-> speakers, transcript |-> entries]

\* records of the whole run: one per call id
SourceRecords ==
    {Record(c, "Discovery call", <<Speaker(1, "Alice")>>, <<Entry(1)>>) :
        c \in 1..MaxCallId}

\* the 'values' slices a page response can carry
Slices == SeqsUpTo(SourceRecords, MaxSlice)

\* records that differ in call id and in content
TitledRecords ==
    {Record(c, t, <<Speaker(1, "Alice")>>, <<Entry(1)>>) :
        c \in 1..MaxCallId, t \in Titles}

\* records with every shape of speakers list and transcript
RichRecords ==
    {Record(1, "Discovery call", sp, en) :
        sp \in SeqsUpTo({Speaker(i, n) : i \in 1..MaxSpeakerId, n \in Names},
                        MaxSpeakers),
        en \in SeqsUpTo({Entry(i) : i \in 1..MaxSpeakerId}, MaxEntries)}

Topic(i) == [topicId |-> i, name |-> IF i = 1 THEN "Pricing" ELSE "Demo"]

\* records with every combination of the optional fields: each string field
\* null, empty or set, the recording relation absent, with an empty url or
\* with a url, and an entry with 0..MaxTopics topics
OptionalRecords ==
    {[Record(1, "Discovery call", <<>>, <<>>) EXCEPT
            !.callCrmId = crm, !.recording = rec, !.aiSummary = ai,
            !.speakers = <<[Speaker(1, "Alice") EXCEPT
                                !.email = em, !.phoneNumber = ph]>>,
            !.transcript = <<[Entry(1) EXCEPT !.topics = tp]>>] :
        crm \in {NULL, "", "crm-7"},
        rec \in {<<>>, <<[url |-> ""]>>, <<[url |-> "https://rec/1"]>>},
        ai \in {NULL, "", "Summary"},
        em \in {NULL, "", "alice@example.com"},
        ph \in {NULL, "", "+33100000000"},
        tp \in SeqsUpTo({Topic(1), Topic(2)}, MaxTopics)}

(***************************************************************************)
(* getModjoTranscripts (lines 85-133).                                     *)
(***************************************************************************)
\* a slip that numbers the pages from 0
PageRequestZeroBased(p) == [page |-> p - 1, perPage |-> perPage]

\* lines 95-96: the pagination of the request body
PageRequest(p) == [page |-> p, perPage |-> perPage]

\* a slip that stops only on the page the response names as the last
shouldStopEqual(p, lastPage) == p = lastPage

\* a slip that stops one page late
shouldStopStrict(p, lastPage) == p > lastPage

\* a slip that drops records already accumulated
accumulateDistinct(all, values) ==
    all \o SelectSeq(values, LAMBDA v : \A i \in 1..Len(all) : all[i] # v)

\* line 113: allTranscripts.concat(response.data.values)
accumulate(all, values) == all \o values

\* lines 118-120: if (page >= response.data.pagination.lastPage) break
shouldStop(p, lastPage) == p >= lastPage

\* main calls getModjoTranscripts, which runs up to its first await: the
\* request for page 1 (lines 208, 86-111)
MainStart ==
    /\ pc = "main"
    /\ extractorCalls' = extractorCalls + 1
    /\ page' = 1
    /\ allTranscripts' = <<>>
    /\ requests' = Append(requests, PageRequest(1))
    /\ pc' = "awaitPage"
    /\ UNCHANGED <<responses, transcripts, idx, limiterVars, destinationVars,
                   console, fmtVars, envVars>>

\* the awaited post resolves: lines 113-121, then the next iteration's
\* request or the return of line 132
PageSuccessWith(slices, lastPages) ==
    /\ pc = "awaitPage"
    /\ \E values \in slices, lastPage \in lastPages :
        /\ Len(allTranscripts) + Len(values) <= MaxRecords
        /\ responses' = Append(responses,
                [ok |-> TRUE, values |-> values, lastPage |-> lastPage])
        /\ allTranscripts' = accumulate(allTranscripts, values)
        /\ console' = Append(console, [kind |-> "Retrieved", arg |-> Len(values)])
        /\ IF shouldStop(page, lastPage)
           THEN /\ pc' = "extracted"
                /\ UNCHANGED <<page, requests>>
           ELSE /\ page' = page + 1
                /\ requests' = Append(requests, PageRequest(page + 1))
                /\ pc' = "awaitPage"
    /\ UNCHANGED <<extractorCalls, transcripts, idx, limiterVars,
                   destinationVars, fmtVars, envVars>>

\* the response carries any slice and any lastPage of 0..MaxLastPage
PageSuccess == PageSuccessWith(Slices, 0..MaxLastPage)

\* a longer exchange of short pages: slices of at most one record, lastPage
\* up to MaxLastPage + 1, so that a later response can report another
\* lastPage than an earlier one and a third page can be asked for
PageSuccessDeep ==
    PageSuccessWith(SeqsUpTo(SourceRecords, 1), 0..(MaxLastPage + 1))

\* pages of a source that holds one call
PageSuccessOneCall ==
    PageSuccessWith(
        SeqsUpTo({Record(1, "Discovery call", <<Speaker(1, "Alice")>>, <<Entry(1)>>)}, 1),
        0..MaxLastPage)

\* a slip that goes on to the next page after a failed one
PageFailureSkipsPage ==
    /\ pc = "awaitPage"
    /\ responses' = Append(responses,
            [ok |-> FALSE, values |-> <<>>, lastPage |-> 0])
    /\ console' = Append(console,
            [kind |-> "Error fetching Modjo transcripts", arg |-> page])
    /\ IF page < MaxLastPage
       THEN /\ page' = page + 1
            /\ requests' = Append(requests, PageRequest(page + 1))
            /\ pc' = "awaitPage"
       ELSE /\ pc' = "extracted"
            /\ UNCHANGED <<page, requests>>
    /\ UNCHANGED <<extractorCalls, allTranscripts, transcripts, idx,
                   limiterVars, destinationVars, fmtVars, envVars>>

\* a slip that asks for the failed page once more
PageFailureRetries ==
    /\ pc = "awaitPage"
    /\ responses' = Append(responses,
            [ok |-> FALSE, values |-> <<>>, lastPage |-> 0])
    /\ console' = Append(console,
            [kind |-> "Error fetching Modjo transcripts", arg |-> page])
    /\ IF Len(requests) <= MaxLastPage
       THEN /\ requests' = Append(requests, PageRequest(page))
            /\ pc' = "awaitPage"
       ELSE /\ pc' = "extracted"
            /\ UNCHANGED requests
    /\ UNCHANGED <<extractorCalls, page, allTranscripts, transcripts, idx,
                   limiterVars, destinationVars, fmtVars, envVars>>

\* a slip that lets the rejection escape to main's catch (lines 216-218)
PageFailureEscapes ==
    /\ pc = "awaitPage"
    /\ responses' = Append(responses,
            [ok |-> FALSE, values |-> <<>>, lastPage |-> 0])
    /\ console' = Append(console, [kind |-> "An error occurred", arg |-> page])
    /\ pc' = "done"
    /\ UNCHANGED <<extractorCalls, page, allTranscripts, requests, transcripts,
                   idx, limiterVars, destinationVars, fmtVars, envVars>>

\* the awaited post rejects: the catch of lines 122-129 logs and breaks,
\* line 132 returns
PageFailure ==
    /\ pc = "awaitPage"
    /\ responses' = Append(responses,
            [ok |-> FALSE, values |-> <<>>, lastPage |-> 0])
    /\ console' = Append(console,
            [kind |-> "Error fetching Modjo transcripts", arg |-> page])
    /\ pc' = "extracted"
    /\ UNCHANGED <<extractorCalls, page, allTranscripts, requests, transcripts,
                   idx, limiterVars, destinationVars, fmtVars, envVars>>

(***************************************************************************)
(* main (lines 206-219) and the upsert of one record (lines 173-195)       *)
(* through the limiter (lines 48-51).                                      *)
(***************************************************************************)
\* await getModjoTranscripts() resolves: lines 208-209
MainResume ==
    /\ pc = "extracted"
    /\ transcripts' = allTranscripts
    /\ console' = Append(console, [kind |-> "Found", arg |-> Len(allTranscripts)])
    /\ pc' = "loop"
    /\ UNCHANGED <<extractorCalls, extractorVars, idx, limiterVars,
                   destinationVars, fmtVars, envVars>>

\* a slip that walks the records from the end
nextRecordReversed(ts, i) == ts[Len(ts) + 1 - i]

\* line 211: the i-th record the for-of loop yields
nextRecord(ts, i) == ts[i]

\* the job upsertToDustDatasource hands to limiter.schedule (lines 136-181)
UpsertJob(i, transcript) ==
    [idx |-> i, callId |-> transcript.callId, id |-> documentId(transcript),
     text |-> documentText(transcript)]

\* a slip that does not await the previous upsert
LoopNextNoAwait ==
    /\ pc \in {"loop", "awaitUpsert"}
    /\ idx < Len(transcripts)
    /\ idx' = idx + 1
    /\ queued' = Append(queued, UpsertJob(idx + 1, nextRecord(transcripts, idx + 1)))
    /\ pc' = "awaitUpsert"
    /\ UNCHANGED <<extractorCalls, extractorVars, transcripts, executing,
                   sinceLaunch, destinationVars, console, fmtVars, envVars>>

\* a renderer that reads recording.url without the test of line 145
renderThrowsWithoutRecording(transcript) ==
    \/ "speakers" \notin DOMAIN transcript
    \/ "transcript" \notin DOMAIN transcript
    \/ transcript.recording = <<>>

\* lines 151 and 159: forEach is called on relations.speakers and on
\* relations.transcript untested; on a record that carries no such relation
\* the call raises a TypeError
renderThrows(transcript) ==
    \/ "speakers" \notin DOMAIN transcript
    \/ "transcript" \notin DOMAIN transcript

\* lines 211-212 and 135-181: the loop takes the next record, renders it and
\* schedules its request on the limiter
LoopNext ==
    /\ pc = "loop"
    /\ idx < Len(transcripts)
    /\ ~renderThrows(nextRecord(transcripts, idx + 1))
    /\ idx' = idx + 1
    /\ queued' = Append(queued, UpsertJob(idx + 1, nextRecord(transcripts, idx + 1)))
    /\ pc' = "awaitUpsert"
    /\ UNCHANGED <<extractorCalls, extractorVars, transcripts, executing,
                   sinceLaunch, destinationVars, console, fmtVars, envVars>>

\* lines 211-212, 151/159 and 216-218: the rendering of the next record
\* raises before the try of line 173; the rejection passes the await of line
\* 212 and lands in main's catch, which logs it, and main returns
RenderThrows ==
    /\ pc = "loop"
    /\ idx < Len(transcripts)
    /\ renderThrows(nextRecord(transcripts, idx + 1))
    /\ idx' = idx + 1
    /\ console' = Append(console,
            [kind |-> "An error occurred",
             arg |-> nextRecord(transcripts, idx + 1).callId])
    /\ pc' = "done"
    /\ UNCHANGED <<extractorCalls, extractorVars, transcripts, limiterVars,
                   destinationVars, fmtVars, envVars>>

\* a limiter that forgets minTime
canLaunchIgnoringMinTime == Len(executing) < maxConcurrent

\* lines 48-51: a job may start when fewer than maxConcurrent run and
\* minTime has passed since the last start
canLaunch == Len(executing) < maxConcurrent /\ sinceLaunch >= minTime

\* the limiter starts the head job: dustApi.post is sent (lines 175-180)
Launch ==
    /\ queued # <<>>
    /\ canLaunch
    /\ executing' = Append(executing, Head(queued))
    /\ queued' = Tail(queued)
    /\ sinceLaunch' = 0
    /\ dispatches' = Append(dispatches,
            [idx |-> Head(queued).idx, id |-> Head(queued).id,
             text |-> Head(queued).text, gap |-> sinceLaunch])
    /\ UNCHANGED <<pc, extractorCalls, extractorVars, transcripts, idx,
                   completions, docs, console, fmtVars, envVars>>

\* time passes
Tick ==
    /\ sinceLaunch < minTime
    /\ sinceLaunch' = IF sinceLaunch + TickStep >= minTime THEN minTime
                      ELSE sinceLaunch + TickStep
    /\ UNCHANGED <<pc, extractorCalls, extractorVars, transcripts, idx, queued,
                   executing, destinationVars, console, fmtVars, envVars>>

\* create-or-replace of the destination
upsertDocument(ds, id, text) ==
    {d \in ds : d.id # id} \cup {[id |-> id, text |-> text]}

\* the destination accepts the request; line 182 logs, the loop goes on
UpsertSuccess ==
    /\ pc = "awaitUpsert"
    /\ executing # <<>>
    /\ LET job == Head(executing) IN
        /\ docs' = upsertDocument(docs, job.id, job.text)
        /\ completions' = Append(completions, [idx |-> job.idx, ok |-> TRUE])
        /\ console' = Append(console,
                [kind |-> "Upserted transcript", arg |-> job.callId])
    /\ executing' = Tail(executing)
    /\ pc' = "loop"
    /\ UNCHANGED <<extractorCalls, extractorVars, transcripts, idx, queued,
                   sinceLaunch, dispatches, fmtVars, envVars>>

\* a slip that lets the failure escape to main's catch (lines 216-218)
UpsertFailureEscapes ==
    /\ pc = "awaitUpsert"
    /\ executing # <<>>
    /\ LET job == Head(executing) IN
        /\ completions' = Append(completions, [idx |-> job.idx, ok |-> FALSE])
        /\ console' = Append(console, [kind |-> "An error occurred", arg |-> job.callId])
    /\ executing' = Tail(executing)
    /\ pc' = "done"
    /\ UNCHANGED <<extractorCalls, extractorVars, transcripts, idx, queued,
                   sinceLaunch, dispatches, docs, fmtVars, envVars>>

\* the request fails (transport error or rejected status); the catch of
\* lines 183-195 logs, the loop goes on
UpsertFailure ==
    /\ pc = "awaitUpsert"
    /\ executing # <<>>
    /\ LET job == Head(executing) IN
        /\ completions' = Append(completions, [idx |-> job.idx, ok |-> FALSE])
        /\ console' = Append(console,
                [kind |-> "Error upserting transcript", arg |-> job.callId])
    /\ executing' = Tail(executing)
    /\ pc' = "loop"
    /\ UNCHANGED <<extractorCalls, extractorVars, transcripts, idx, queued,
                   sinceLaunch, dispatches, docs, fmtVars, envVars>>

\* line 215: the loop is over
Finish ==
    /\ pc = "loop"
    /\ idx >= Len(transcripts)
    /\ console' = Append(console,
            [kind |-> "All transcripts processed successfully.", arg |-> 0])
    /\ pc' = "done"
    /\ UNCHANGED <<extractorCalls, extractorVars, transcripts, idx, limiterVars,
                   destinationVars, fmtVars, envVars>>

\* formatTime applied to the drawn argument
ApplyFormatTime ==
    /\ pc = "formatTime"
    /\ fmtOut' = formatTime(fmtIn)
    /\ pc' = "formatted"
    /\ UNCHANGED <<extractorCalls, extractorVars, transcripts, idx, limiterVars,
                   destinationVars, console, fmtIn, envVars>>

(***************************************************************************)
(* Specifications.                                                         *)
(***************************************************************************)
\* the whole run, from the call of main (line 221)
Init ==
    /\ pc = "main"
    /\ extractorCalls = 0
    /\ page = 0
    /\ allTranscripts = <<>>
    /\ requests = <<>>
    /\ responses = <<>>
    /\ transcripts = <<>>
    /\ idx = 0
    /\ queued = <<>>
    /\ executing = <<>>
    /\ sinceLaunch = minTime
    /\ dispatches = <<>>
    /\ completions = <<>>
    /\ docs = {}
    /\ console = <<>>
    /\ fmtIn = 0
    /\ fmtOut = <<>>
    /\ config = DefaultConfig
    /\ docs0 = docs

Next ==
    \/ MainStart
    \/ PageSuccess
    \/ PageFailure
    \/ MainResume
    \/ LoopNext
    \/ Launch
    \/ Tick
    \/ UpsertSuccess
    \/ UpsertFailure
    \/ Finish

Spec == Init /\ [][Next]_vars

\* the whole run over a source of one call, whose pages carry the record of
\* that call or nothing
NextOneCall ==
    \/ MainStart
    \/ PageSuccessOneCall
    \/ PageFailure
    \/ MainResume
    \/ LoopNext
    \/ Launch
    \/ Tick
    \/ UpsertSuccess
    \/ UpsertFailure
    \/ Finish

\* that run when every step that can be taken is eventually taken: awaited
\* network calls complete, the event loop resumes what is ready, time passes
SpecFair == Init /\ [][NextOneCall]_vars /\ WF_vars(NextOneCall)

(***************************************************************************)
(* The module's top level (lines 7-22): the configuration is read from the *)
(* environment and checked before anything else runs.                      *)
(***************************************************************************)
\* a slip that leaves the datasource id out of the check
configOkWithoutDatasource(cfg) ==
    \A k \in RequiredKeys \ {"DUST_DATASOURCE_ID"} : Truthy(cfg[k])

\* lines 13-18 negated: none of the four required values is falsy
configOk(cfg) == \A k \in RequiredKeys : Truthy(cfg[k])

\* lines 13-22: the throw ends the process before main() of line 221 is
\* reached; otherwise control falls through to main()
Startup ==
    /\ pc = "startup"
    /\ pc' = IF configOk(config) THEN "main" ELSE "configError"
    /\ UNCHANGED <<extractorCalls, extractorVars, transcripts, idx,
                   limiterVars, destinationVars, console, fmtVars, envVars>>

\* every environment: each required variable unset, empty or set, the base
\* URL unset or overridden
Environments ==
    {cfg \in [ConfigKeys -> {NULL, "", "set", "https://modjo.example"}] :
        /\ cfg["MODJO_BASE_URL"] \in {NULL, "https://modjo.example"}
        /\ \A k \in RequiredKeys : cfg[k] \in {NULL, "", "set"}}

InitCfg ==
    /\ pc = "startup"
    /\ extractorCalls = 0
    /\ page = 0
    /\ allTranscripts = <<>>
    /\ requests = <<>>
    /\ responses = <<>>
    /\ transcripts = <<>>
    /\ idx = 0
    /\ queued = <<>>
    /\ executing = <<>>
    /\ sinceLaunch = minTime
    /\ dispatches = <<>>
    /\ completions = <<>>
    /\ docs = {}
    /\ console = <<>>
    /\ fmtIn = 0
    /\ fmtOut = <<>>
    /\ config \in Environments
    /\ docs0 = docs

NextCfg ==
    \/ Startup
    \/ Next

SpecCfg == InitCfg /\ [][NextCfg]_vars

\* the extraction on its own, with the longer exchange
NextExt ==
    \/ MainStart
    \/ PageSuccessDeep
    \/ PageFailure
    \/ MainResume

SpecExt == Init /\ [][NextExt]_vars

\* the publishing of one extracted batch: the state in which the extractor
\* has returned the batch from a single page, against a destination that
\* may hold a document of an earlier run
PubBatches ==
    {<<r>> : r \in RichRecords \cup OptionalRecords}
        \cup {<<r1, r2>> : r1 \in TitledRecords, r2 \in TitledRecords}

PriorDocs ==
    {{}} \cup {{[id |-> documentId(r), text |-> documentText(r)]} :
                    r \in TitledRecords}

InitPub ==
    /\ pc = "loop"
    /\ extractorCalls = 1
    /\ page = 1
    /\ \E batch \in PubBatches :
        /\ allTranscripts = batch
        /\ transcripts = batch
        /\ responses = <<[ok |-> TRUE, values |-> batch, lastPage |-> 1]>>
        /\ console = <<[kind |-> "Retrieved", arg |-> Len(batch)],
                       [kind |-> "Found", arg |-> Len(batch)]>>
    /\ requests = <<PageRequest(1)>>
    /\ idx = 0
    /\ queued = <<>>
    /\ executing = <<>>
    /\ sinceLaunch = minTime
    /\ dispatches = <<>>
    /\ completions = <<>>
    /\ docs \in (IF Len(transcripts) > 1 THEN PriorDocs ELSE {{}})
    /\ fmtIn = 0
    /\ fmtOut = <<>>
    /\ config = DefaultConfig
    /\ docs0 = docs

NextPub ==
    \/ LoopNext
    \/ Launch
    \/ Tick
    \/ UpsertSuccess
    \/ UpsertFailure
    \/ Finish

SpecPub == InitPub /\ [][NextPub]_vars

\* a record as the JSON of the response carries it when a relation is left out
Without(r, relation) == [f \in DOMAIN r \ {relation} |-> r[f]]

\* a record with every optional field and relation absent
LeanRecord(c) ==
    [Record(c, "Discovery call", <<Speaker(1, "Alice")>>,
            <<Entry(1), Entry(2)>>) EXCEPT !.recording = <<>>]

\* the records of a response body: of the declared type, with and without
\* the optional parts, and bodies that leave out the speakers or the
\* transcript relation
LooseRecords ==
    {LeanRecord(1),
     Record(2, "Discovery call", <<Speaker(1, "Alice")>>, <<Entry(1)>>),
     Without(LeanRecord(1), "speakers"),
     Without(Record(2, "Discovery call", <<Speaker(1, "Alice")>>, <<Entry(1)>>),
             "transcript")}

\* the publishing of a batch of such records
InitMal ==
    /\ pc = "loop"
    /\ extractorCalls = 1
    /\ page = 1
    /\ \E batch \in SeqsUpTo(LooseRecords, 2) :
        /\ allTranscripts = batch
        /\ transcripts = batch
        /\ responses = <<[ok |-> TRUE, values |-> batch, lastPage |-> 1]>>
        /\ console = <<[kind |-> "Retrieved", arg |-> Len(batch)],
                       [kind |-> "Found", arg |-> Len(batch)]>>
    /\ requests = <<PageRequest(1)>>
    /\ idx = 0
    /\ queued = <<>>
    /\ executing = <<>>
    /\ sinceLaunch = minTime
    /\ dispatches = <<>>
    /\ completions = <<>>
    /\ docs = {}
    /\ fmtIn = 0
    /\ fmtOut = <<>>
    /\ config = DefaultConfig
    /\ docs0 = docs

NextMal ==
    \/ NextPub
    \/ RenderThrows

SpecMal == InitMal /\ [][NextMal]_vars

\* formatTime on its own, over 0..MaxSeconds
InitFmt ==
    /\ pc = "formatTime"
    /\ extractorCalls = 0
    /\ page = 0
    /\ allTranscripts = <<>>
    /\ requests = <<>>
    /\ responses = <<>>
    /\ transcripts = <<>>
    /\ idx = 0
    /\ queued = <<>>
    /\ executing = <<>>
    /\ sinceLaunch = minTime
    /\ dispatches = <<>>
    /\ completions = <<>>
    /\ docs = {}
    /\ console = <<>>
    /\ fmtIn \in 0..MaxSeconds
    /\ fmtOut = <<>>
    /\ config = DefaultConfig
    /\ docs0 = docs

NextFmt == ApplyFormatTime

SpecFmt == InitFmt /\ [][NextFmt]_vars

(***************************************************************************)
(* Vocabulary of the properties.                                           *)
(***************************************************************************)
\* getModjoTranscripts has returned
Returned == pc \in {"extracted", "loop", "awaitUpsert", "done"}

\* the slices of the first k responses, one after the other
RECURSIVE SlicesConcat(_)
SlicesConcat(k) ==
    IF k = 0 THEN <<>> ELSE SlicesConcat(k - 1) \o responses[k].values

RECURSIVE SlicesTotal(_)
SlicesTotal(k) ==
    IF k = 0 THEN 0 ELSE SlicesTotal(k - 1) + Len(responses[k].values)

Digits == {DigitChars[i] : i \in 1..10}

DigitValue(ch) == CHOOSE d \in 0..9 : DigitChars[d + 1] = ch

\* the number a sequence of digits denotes
RECURSIVE ParseNum(_)
ParseNum(ds) ==
    IF Len(ds) = 1 THEN DigitValue(ds[1])
    ELSE 10 * ParseNum(SubSeq(ds, 1, Len(ds) - 1)) + DigitValue(ds[Len(ds)])

IsNumeral(ds) == Len(ds) >= 1 /\ \A i \in 1..Len(ds) : ds[i] \in Digits

RECURSIVE NumDigits(_)
NumDigits(n) == IF n < 10 THEN 1 ELSE 1 + NumDigits(n \div 10)

ConsoleOf(kind) == SelectSeq(console, LAMBDA e : e.kind = kind)

FailedUpserts == SelectSeq(completions, LAMBDA c : ~c.ok)

\* C1: when every page request succeeded and every response reported the
\* same lastPage L >= 1, the extractor requested pages 1..L and returned
\* the slices of pages 1..L one after the other, nothing dropped, reordered
\* or deduplicated, so the result is as long as the slices together.
C1_FullExtraction ==
    Returned =>
        \A L \in 1..MaxLastPage :
            (\A k \in 1..Len(responses) :
                responses[k].ok /\ responses[k].lastPage = L)
            => /\ Len(responses) = L
               /\ \A k \in 1..L : requests[k].page = k
               /\ allTranscripts = SlicesConcat(L)
               /\ Len(allTranscripts) = SlicesTotal(L)
               /\ (pc # "extracted" => transcripts = SlicesConcat(L))

\* two pages, both answered with lastPage = 2, carrying the same record
C1_Witness ==
    /\ pc = "done"
    /\ Len(responses) = 2
    /\ \A k \in 1..2 : responses[k].ok /\ responses[k].lastPage = 2
    /\ Len(responses[1].values) = 1
    /\ responses[1].values = responses[2].values
    /\ Len(transcripts) = 2

\* C2: a failed page request is the last one: no further request is sent,
\* the extractor returns normally, and its result is exactly the slices of
\* the pages before the failed one.
C2_FailureReturnsPrefix ==
    \A k \in 1..Len(responses) :
        ~responses[k].ok =>
            /\ k = Len(responses)
            /\ Len(requests) = k
            /\ Returned
            /\ ConsoleOf("An error occurred") = <<>>
            /\ allTranscripts = SlicesConcat(k - 1)
            /\ (pc # "extracted" => transcripts = SlicesConcat(k - 1))

\* page 2 failed after page 1 delivered records
C2_Witness ==
    /\ pc = "loop"
    /\ Len(responses) = 2
    /\ responses[1].ok
    /\ ~responses[2].ok
    /\ transcripts = responses[1].values
    /\ transcripts # <<>>

\* C3: at most one upsert request is in flight, and every upsert request
\* but the first leaves at least minTime after the one before it (the
\* recorded gap is the clock since the last launch, which stops at minTime).
C3_RateGate ==
    /\ Len(executing) <= 1
    /\ Len(dispatches) - Len(completions) \in {0, 1}
    /\ \A k \in 2..Len(dispatches) : dispatches[k].gap >= minTime

\* a second request went out after the first one had failed
C3_Witness ==
    /\ Len(dispatches) = 2
    /\ ~completions[1].ok
    /\ Len(executing) = 1

\* the limiter holds a job that starts now or once minTime has passed
GateWillAdmit == queued # <<>> /\ (canLaunch \/ sinceLaunch < minTime)

\* C4: the run sends one upsert request per extracted record whatever
\* subset of them fails: a failure is reported with the record's call id,
\* the request of the record in hand is in flight or about to be admitted
\* by the limiter, and at the end of the run every record has
\* had its request.
C4_OneUpsertPerRecord ==
    /\ Len(dispatches) <= Len(transcripts)
    /\ Len(ConsoleOf("Error upserting transcript")) = Len(FailedUpserts)
    /\ \A j \in 1..Len(FailedUpserts) :
            ConsoleOf("Error upserting transcript")[j].arg
                = transcripts[FailedUpserts[j].idx].callId
    /\ (pc = "awaitUpsert" => executing # <<>> \/ GateWillAdmit)
    /\ (pc = "done" =>
            /\ Len(dispatches) = Len(transcripts)
            /\ Len(completions) = Len(transcripts)
            /\ \A i \in 1..Len(transcripts) : dispatches[i].idx = i)

\* the first of two upserts failed and the second was still sent and accepted
C4_Witness ==
    /\ pc = "done"
    /\ Len(transcripts) = 2
    /\ Len(dispatches) = 2
    /\ ~completions[1].ok
    /\ completions[2].ok

\* C5: no page index is requested twice and no record's upsert is sent
\* twice; at the end of the run every accumulated record, also after an
\* extraction cut short by a failed page, has had exactly one upsert
\* request.
C5_NoRetry ==
    /\ \A i, j \in 1..Len(requests) :
            i # j => requests[i].page # requests[j].page
    /\ \A i, j \in 1..Len(dispatches) :
            i # j => dispatches[i].idx # dispatches[j].idx
    /\ (pc = "done" =>
            /\ Len(dispatches) = Len(allTranscripts)
            /\ {dispatches[i].idx : i \in 1..Len(dispatches)}
                    = 1..Len(allTranscripts))

\* page 2 failed, both records of page 1 were sent, both upserts failed
C5_Witness ==
    /\ pc = "done"
    /\ Len(responses) = 2
    /\ ~responses[2].ok
    /\ Len(allTranscripts) = 2
    /\ Len(dispatches) = 2
    /\ ~completions[1].ok
    /\ ~completions[2].ok

\* C6: the k-th upsert request sent is the one of the k-th extracted record,
\* and a job still waiting in the limiter is of a later record than every
\* request sent.
C6_FIFO ==
    /\ \A k \in 1..Len(dispatches) :
            /\ dispatches[k].idx = k
            /\ dispatches[k].id = documentId(transcripts[k])
            /\ dispatches[k].text = documentText(transcripts[k])
    /\ \A q \in 1..Len(queued) :
            /\ queued[q].idx = Len(dispatches) + q
            /\ queued[q].id = documentId(transcripts[queued[q].idx])

\* two records with different call ids, both sent
C6_Witness ==
    /\ Len(dispatches) = 2
    /\ transcripts[1].callId # transcripts[2].callId

\* C7: the identifier a request addresses is 'modjo-transcript-' followed by
\* the numeral of the record's call id, so two requests address the same
\* document exactly when their records have the same call id; and once an
\* upsert for an identifier has succeeded the destination holds exactly one
\* document under it, with the text of the last record upserted under it
\* (so the same record upserted twice leaves one document with that text).
C7_DocumentIdentity ==
    /\ \A k \in 1..Len(dispatches) :
            /\ Head(dispatches[k].id) = "modjo-transcript-"
            /\ IsNumeral(Tail(dispatches[k].id))
            /\ ParseNum(Tail(dispatches[k].id)) = transcripts[k].callId
    /\ \A j, k \in 1..Len(dispatches) :
            (dispatches[j].id = dispatches[k].id)
                <=> (transcripts[j].callId = transcripts[k].callId)
    /\ \A k \in 1..Len(completions) :
            completions[k].ok =>
                LET id == dispatches[k].id
                    later == {m \in k..Len(completions) :
                                completions[m].ok /\ dispatches[m].id = id}
                    last == CHOOSE m \in later : \A n \in later : n <= m
                    held == {d \in docs : d.id = id}
                IN  /\ Cardinality(held) = 1
                    /\ \A d \in held : d.text = documentText(transcripts[last])

\* the same record upserted twice with success: one document
C7_Witness ==
    /\ Len(completions) = 2
    /\ completions[1].ok
    /\ completions[2].ok
    /\ transcripts[1] = transcripts[2]
    /\ Cardinality(docs) = 1

\* C8: the extractor is invoked once; nothing is scheduled or sent before it
\* has returned; the limiter never holds more than one job, and a record is
\* submitted only when every earlier record's upsert has completed.
C8_Sequential ==
    /\ extractorCalls <= 1
    /\ (pc # "main" => extractorCalls = 1)
    /\ (pc \in {"main", "awaitPage", "extracted"} =>
            /\ idx = 0
            /\ queued = <<>>
            /\ executing = <<>>
            /\ dispatches = <<>>)
    /\ Len(queued) + Len(executing) <= 1
    /\ idx - Len(completions) \in {0, 1}
    /\ (idx - Len(completions) = 1 <=> pc = "awaitUpsert")
    /\ (pc = "awaitUpsert" <=> Len(queued) + Len(executing) = 1)

\* the second record is in the limiter after the first one's upsert completed
C8_Witness ==
    /\ pc = "awaitUpsert"
    /\ idx = 2
    /\ Len(completions) = 1
    /\ Len(queued) = 1

\* C9: formatTime(s) is the numeral of s \div 60, at least two digits long
\* and with no more leading zeros than that takes, then ':', then the
\* two-digit numeral of s % 60; 125, 59 and 3661 give 02:05, 00:59, 61:01.
C9_FormatTime ==
    pc = "formatted" =>
        LET n == Len(fmtOut)
            mm == SubSeq(fmtOut, 1, n - 3)
            ss == SubSeq(fmtOut, n - 1, n)
        IN  /\ n >= 5
            /\ fmtOut[n - 2] = ":"
            /\ IsNumeral(mm)
            /\ ParseNum(mm) = fmtIn \div 60
            /\ Len(mm) = (IF fmtIn \div 60 < 100 THEN 2 ELSE NumDigits(fmtIn \div 60))
            /\ IsNumeral(ss)
            /\ ParseNum(ss) = fmtIn % 60
            /\ (fmtIn = 125 => fmtOut = <<"0", "2", ":", "0", "5">>)
            /\ (fmtIn = 59 => fmtOut = <<"0", "0", ":", "5", "9">>)
            /\ (fmtIn = 3661 => fmtOut = <<"6", "1", ":", "0", "1">>)

\* a three-digit minute count with a one-digit remainder
C9_Witness ==
    /\ pc = "formatted"
    /\ fmtIn = 6005
    /\ fmtOut = <<"1", "0", "0", ":", "0", "5">>

\* the name the first speaker with the id carries, or the placeholder
RECURSIVE ExpectedSpeakerName(_, _)
ExpectedSpeakerName(speakers, id) ==
    IF speakers = <<>> THEN <<"Speaker ", DigitChars[id + 1]>>
    ELSE IF Head(speakers).speakerId = id THEN <<Head(speakers).name>>
    ELSE ExpectedSpeakerName(Tail(speakers), id)

\* the transcript lines of a document text: those that open with '['
EntryLinesOf(text) == SelectSeq(text, LAMBDA l : l # <<>> /\ l[1] = "[")

\* C10: in the text of every request sent, the line of each transcript entry
\* names the first speaker of the record with the entry's speakerId, or
\* 'Speaker <id>' when there is none; a record with an unresolved reference
\* is rendered and its request is sent like any other.
C10_SpeakerResolution ==
    /\ \A k \in 1..Len(dispatches) :
        LET r == transcripts[k]
            lines == EntryLinesOf(dispatches[k].text)
        IN  /\ Len(lines) = Len(r.transcript)
            /\ \A e \in 1..Len(r.transcript) :
                LET line == lines[e]
                IN  /\ line[13] = "] "
                    /\ SubSeq(line, 14, Len(line) - 2)
                        = ExpectedSpeakerName(r.speakers, r.transcript[e].speakerId)
                    /\ line[Len(line) - 1] = ": "
    /\ (pc = "done" => Len(dispatches) = Len(transcripts))
    /\ ConsoleOf("An error occurred") = <<>>

\* two speakers share id 1, no speaker has id 2; both entries were rendered
\* and the request was sent
C10_Witness ==
    /\ pc = "done"
    /\ Len(transcripts) = 1
    /\ transcripts[1].speakers = <<Speaker(1, "Alice"), Speaker(1, "Bob")>>
    /\ transcripts[1].transcript = <<Entry(1), Entry(2)>>
    /\ Len(dispatches) = 1

\* a string field holds a value
Present(v) == v # NULL /\ v # ""

\* the lines of a text that open with the label
LinesOf(text, label) ==
    SelectSeq(text, LAMBDA l : l # <<>> /\ l[1] = label)

\* the lines of the speakers block of a text
SpeakerLinesOf(text, n) ==
    LET at == CHOOSE j \in 1..Len(text) : text[j] = <<"Speakers:">>
    IN  SubSeq(text, at + 1, at + n)

HasAtom(line, atom) == \E i \in 1..Len(line) : line[i] = atom

\* every atom that follows the label in the line holds a value
ValueAfter(line, label) ==
    \A i \in 1..Len(line) :
        line[i] = label => i < Len(line) /\ Present(line[i + 1])

\* each optional line or suffix is in the text exactly when its field is
\* present
OmissionMatchesPresence(r, text) ==
    /\ Len(LinesOf(text, "CRM ID: ")) = (IF Present(r.callCrmId) THEN 1 ELSE 0)
    /\ Len(LinesOf(text, "Recording URL: ")) = (IF r.recording # <<>> THEN 1 ELSE 0)
    /\ Len(LinesOf(text, "AI Summary: ")) = (IF Present(r.aiSummary) THEN 1 ELSE 0)
    /\ \A i \in 1..Len(r.speakers) :
        LET line == SpeakerLinesOf(text, Len(r.speakers))[i]
        IN  /\ HasAtom(line, " - Email: ") <=> Present(r.speakers[i].email)
            /\ HasAtom(line, " - Phone: ") <=> Present(r.speakers[i].phoneNumber)
    /\ Len(LinesOf(text, "Topics: "))
        = Cardinality({e \in 1..Len(r.transcript) : Len(r.transcript[e].topics) >= 1})

\* no optional line or suffix of the text carries an empty or missing value
NoEmptyValueEmitted(text) ==
    \A j \in 1..Len(text) :
        /\ ValueAfter(text[j], "CRM ID: ")
        /\ ValueAfter(text[j], "Recording URL: ")
        /\ ValueAfter(text[j], "AI Summary: ")
        /\ ValueAfter(text[j], " - Email: ")
        /\ ValueAfter(text[j], " - Phone: ")
        /\ ValueAfter(text[j], "Topics: ")

\* the part of C11 the code keeps: omission follows presence in the text of
\* every request sent
OmissionIsExact ==
    \A k \in 1..Len(dispatches) :
        OmissionMatchesPresence(transcripts[k], dispatches[k].text)

\* C11: in the text of every request sent, each optional line or suffix
\* appears exactly when its field is present (the recording line when the
\* recording relation is present), and none of them carries an empty or
\* undefined value.
C11_ExactOmission ==
    \A k \in 1..Len(dispatches) :
        /\ OmissionMatchesPresence(transcripts[k], dispatches[k].text)
        /\ NoEmptyValueEmitted(dispatches[k].text)

\* C12: when one of the four required configuration values is unset or
\* empty the program stops at the check and never issues a page request or
\* an upsert request; when the four are set the check passes, with or
\* without the base URL override.
C12_ConfigCheck ==
    /\ (\E k \in RequiredKeys : config[k] \in {NULL, ""}) =>
        /\ pc \in {"startup", "configError"}
        /\ extractorCalls = 0
        /\ requests = <<>>
        /\ queued = <<>> /\ executing = <<>> /\ dispatches = <<>>
    /\ (\A k \in RequiredKeys : config[k] \notin {NULL, ""}) =>
        pc # "configError"

C12_Witness ==
    /\ pc = "configError"
    /\ config["DUST_DATASOURCE_ID"] = ""
    /\ \A k \in RequiredKeys \ {"DUST_DATASOURCE_ID"} : config[k] = "set"

\* the record is of the declared type: its speakers and transcript relations
\* are lists
WellTyped(r) == {"speakers", "transcript"} \subseteq DOMAIN r

\* the request of the k-th record has been handed to the limiter
UpsertIssued(k) ==
    \/ \E i \in 1..Len(queued) : queued[i].idx = k
    \/ \E i \in 1..Len(executing) : executing[i].idx = k
    \/ \E i \in 1..Len(dispatches) : dispatches[i].idx = k

C14_PageProtocol ==
    /\ \A k \in 1..Len(requests) : requests[k] = [page |-> k, perPage |-> 50]
    /\ Len(requests) - Len(responses) \in {0, 1}
    /\ (Len(requests) - Len(responses) = 1) <=> (pc = "awaitPage")
    /\ (pc # "main" => Len(requests) >= 1)
    /\ \A k \in 1..(Len(requests) - 1) : responses[k].ok
    /\ allTranscripts = SlicesConcat(Len(responses))
    /\ page = Len(requests)

\* the third page is being asked for, records of the earlier pages in hand
C14_Witness ==
    /\ pc = "awaitPage"
    /\ Len(requests) = 3
    /\ Len(responses) = 2
    /\ allTranscripts # <<>>

\* C15: a successful response for page p is accumulated, and the extractor
\* has stopped after it exactly when p >= the lastPage of that response; at
\* least one page is requested; a first response with lastPage <= 1 ends the
\* extraction after one request, with that response's records as the result.
C15_StopRule ==
    /\ \A p \in 1..Len(responses) :
        responses[p].ok =>
            /\ (p >= responses[p].lastPage) <=> (Len(requests) = p)
            /\ (p < responses[p].lastPage) <=> (Len(requests) > p)
            /\ SubSeq(allTranscripts, Len(SlicesConcat(p - 1)) + 1,
                      Len(SlicesConcat(p))) = responses[p].values
    /\ (Returned => Len(requests) >= 1)
    /\ (responses # <<>> /\ responses[1].ok /\ responses[1].lastPage <= 1) =>
        /\ Len(requests) = 1
        /\ Returned
        /\ allTranscripts = responses[1].values

\* page 1 reported three pages, page 2 reported two: extraction ended there
C15_Witness ==
    /\ pc = "extracted"
    /\ Len(responses) = 2
    /\ responses[1].ok /\ responses[1].lastPage = 3
    /\ responses[2].ok /\ responses[2].lastPage = 2
    /\ Len(requests) = 2

\* the largest lastPage a response has reported so far
LargestLastPage ==
    LET reported == {0} \cup {responses[k].lastPage : k \in 1..Len(responses)}
    IN  CHOOSE m \in reported : \A n \in reported : n <= m

\* C16: when every network call completes, the run ends: never more than
\* max(L, 1) page requests for L the largest lastPage reported, main reaches
\* its end, and by then every accumulated record has had one upsert attempt;
\* the loop itself sets no limit: a response whose lastPage exceeds its page
\* is always followed by a further request.
C16_Termination ==
    /\ [](Len(requests) <= (IF LargestLastPage > 1 THEN LargestLastPage ELSE 1))
    /\ [](\A p \in 1..Len(responses) :
            (responses[p].ok /\ responses[p].lastPage > p) => Len(requests) > p)
    /\ [](pc = "done" =>
            /\ Len(completions) = Len(allTranscripts)
            /\ \A k \in 1..Len(allTranscripts) :
                completions[k].idx = k /\ dispatches[k].idx = k)
    /\ <>(pc = "done")

\* two pages asked of a source that reported two, two records, run ended
C16_Witness ==
    /\ pc = "done"
    /\ Len(requests) = 2
    /\ LargestLastPage = 2
    /\ Len(allTranscripts) = 2
    /\ Len(completions) = 2

\* the run has logged its closing line last
ClosingLineLogged ==
    /\ console # <<>>
    /\ console[Len(console)].kind = "All transcripts processed successfully."

\* C17: whatever page request or upsert fails, main's handler never logs,
\* and main reaches its closing line: the run is over exactly when that line
\* is the last one logged, and every run gets there.
C17_NoEscape ==
    /\ [](ConsoleOf("An error occurred") = <<>>)
    /\ []((pc = "done") <=> ClosingLineLogged)
    /\ <>ClosingLineLogged

\* the first page failed: the run ended with nothing extracted
C17_Witness ==
    /\ ClosingLineLogged
    /\ ~responses[1].ok
    /\ transcripts = <<>>
    /\ dispatches = <<>>

\* the identifier of the document of the k-th record
OwnId(k) == <<"modjo-transcript-">> \o NumToString(transcripts[k].callId)

\* the completions that reported success
Succeeded == {i \in 1..Len(completions) : completions[i].ok}

\* the identifiers of the records whose upsert succeeded
WrittenIds == {OwnId(completions[i].idx) : i \in Succeeded}

\* the last successful upsert addressed to the identifier
LastWrite(id) ==
    CHOOSE i \in Succeeded :
        /\ OwnId(completions[i].idx) = id
        /\ \A j \in Succeeded : OwnId(completions[j].idx) = id => j <= i

\* C18: the documents created or replaced since the run began are exactly
\* those of the identifiers of the records whose upsert succeeded, each
\* holding the text of the last such upsert; every other document is as it
\* was, so a failed upsert has changed none. (The destination applies a
\* request exactly when it answers with success.)
C18_WritesOwnDocument ==
    /\ \A d \in docs0 : d.id \notin WrittenIds => d \in docs
    /\ \A d \in docs : d.id \notin WrittenIds => d \in docs0
    /\ \A id \in WrittenIds :
        {d \in docs : d.id = id}
            = {[id |-> id,
                text |-> dispatches[completions[LastWrite(id)].idx].text]}
    /\ (Succeeded = {} => docs = docs0)

\* two records of the same call: the first upsert replaced nothing else and
\* the failed second one left the first one's text; the earlier document of
\* another call is still there
C18_Witness ==
    /\ Len(completions) = 2
    /\ completions[1].ok /\ ~completions[2].ok
    /\ OwnId(1) = OwnId(2)
    /\ dispatches[1].text # dispatches[2].text
    /\ docs0 # {}
    /\ \A d \in docs0 : d.id # OwnId(1) /\ d \in docs
    /\ Cardinality(docs) = 2

====
